---------------------------- MODULE Spec2Model ----------------------------
(***************************************************************************)
(* A model of the Telegram Git bot (src/main.py): the security checks, the *)
(* repository scan, the command executor, the handlers of the commands and *)
(* the processes a git command runs as.                                    *)
(*                                                                         *)
(* Strings are sequences of one-character strings, so that sanitising,     *)
(* trimming, splitting, lower-casing and slicing are computed character by *)
(* character.  A path (pathlib.Path) is a sequence of components, each a   *)
(* string; the empty sequence is the root directory "/".                   *)
(***************************************************************************)
EXTENDS Naturals, Integers, Sequences, FiniteSets, TLC

VARIABLES
    config,     \* the Config loaded at start-up (main.py:70), read-only after
    fs,         \* the filesystem the bot runs on
    listing,    \* the entries a directory listing yields before one whose
                \* test fails
    update,     \* the last update handled: [command, user_id, args]
    outcome,    \* where the handler of that update ended
    checks,     \* the checks that handler evaluated, in order
    replies,    \* the chat messages that handler sent or edited, in order
    spawned,    \* the subprocesses that handler started, in order
    scanned,    \* the repository scans that handler made, in order
    result,     \* the GitResults that handler got, in order
    call,       \* the last direct call of a function: [fn, arg, ret]
    exec,       \* the call of execute_git_command in progress and its processes
    loop        \* the event loop: updates waiting and updates served meanwhile

vars ==
    <<config, fs, listing, update, outcome, checks, replies, spawned, scanned,
      result, call, exec, loop>>

-----------------------------------------------------------------------------
(* Bounds of the model *)

\* longest string given to sanitize_input and is_valid_git_command directly
MaxLen == 3

-----------------------------------------------------------------------------
(* Characters and strings *)

\* the backquote character (a string literal cannot hold it)
Backquote == "U+0060"

\* the character class of the regular expression in sanitize_input
Forbidden == {";", "&", "|", Backquote, "$", "(", ")", "{", "}", "\\"}

\* characters str.strip() and str.split() treat as whitespace
Whitespace == {" ", "\t"}

\* str.lower() on the letters the model uses
Lower(c) == CASE c = "H" -> "h"
              [] c = "O" -> "o"
              [] OTHER -> c

StrLower(s) == [i \in 1..Len(s) |-> Lower(s[i])]

\* s[:n]; a negative n counts from the end of s
Prefix(s, n) ==
    LET stop == IF n < 0 THEN Len(s) + n ELSE n
    IN  IF stop >= Len(s) THEN s
        ELSE IF stop <= 0 THEN <<>>
        ELSE SubSeq(s, 1, stop)

RECURSIVE LStrip(_)
LStrip(s) == IF s # <<>> /\ Head(s) \in Whitespace THEN LStrip(Tail(s)) ELSE s

RECURSIVE RStrip(_)
RStrip(s) ==
    IF s # <<>> /\ s[Len(s)] \in Whitespace
    THEN RStrip(SubSeq(s, 1, Len(s) - 1))
    ELSE s

\* str.strip()
Strip(s) == RStrip(LStrip(s))

\* str.split(sep) for a one-character separator: empty fields are kept
RECURSIVE SplitOn(_, _, _)
SplitOn(s, seps, cur) ==
    IF s = <<>> THEN <<cur>>
    ELSE IF Head(s) \in seps
         THEN <<cur>> \o SplitOn(Tail(s), seps, <<>>)
         ELSE SplitOn(Tail(s), seps, Append(cur, Head(s)))

\* str.split(): runs of whitespace separate, no empty fields
Split(s) == SelectSeq(SplitOn(s, Whitespace, <<>>), LAMBDA w : w # <<>>)

\* " ".join(words)
RECURSIVE JoinSpace(_)
JoinSpace(words) ==
    IF words = <<>> THEN <<>>
    ELSE IF Len(words) = 1 THEN words[1]
    ELSE words[1] \o <<" ">> \o JoinSpace(Tail(words))

\* all strings over alphabet A of length at most n
StringsUpTo(A, n) == UNION {[1..k -> A] : k \in 0..n}

-----------------------------------------------------------------------------
(* Paths and the filesystem *)

\* most symbolic links one resolution follows before the kernel reports ELOOP
MaxLinkHops == 2

H == <<"h">>                \* the user's home directory is /h
P == <<"p">>                \* /h/p: the projects directory
A == <<"a">>                \* /h/p/a: a repository
B == <<"b">>                \* /h/p/b: a directory whose .git is a regular file
C == <<"c">>                \* /h/p/b/c: a repository two levels below /h/p
F == <<"f">>                \* /h/p/f: a regular file
L == <<"l">>                \* /h/p/l: a symbolic link
N == <<"n">>                \* /h/p/a/n: a repository nested in a repository
U == <<"u">>                \* /h/p/u: a directory of mode 000
R == <<"r">>                \* /h/p/u/r: a repository nobody can reach
S == <<"s">>                \* /s: the bot's own checkout, outside the home
X == <<".", "x">>           \* /h/p/.x: a hidden repository
DotGit == <<".", "g", "i", "t">>
DotDot == <<".", ".">>
Dot == <<".">>
Tilde == <<"~">>

\* Path.home(), already resolved
HomeDir == <<H>>

\* os.getcwd() of the bot process
Cwd == <<S>>

DirEntry == [kind |-> "dir", target |-> <<>>, access |-> TRUE]
LockedDirEntry == [kind |-> "dir", target |-> <<>>, access |-> FALSE]
FileEntry == [kind |-> "file", target |-> <<>>, access |-> TRUE]
LinkEntry(t) == [kind |-> "link", target |-> t, access |-> TRUE]

BaseTree ==
    (<<>> :> DirEntry) @@ (<<H>> :> DirEntry) @@ (<<H, P>> :> DirEntry)
    @@ (<<H, P, A>> :> DirEntry) @@ (<<H, P, A, DotGit>> :> DirEntry)
    @@ (<<H, P, A, N>> :> DirEntry) @@ (<<H, P, A, N, DotGit>> :> DirEntry)
    @@ (<<H, P, B>> :> DirEntry) @@ (<<H, P, B, DotGit>> :> FileEntry)
    @@ (<<H, P, B, C>> :> DirEntry) @@ (<<H, P, B, C, DotGit>> :> DirEntry)
    @@ (<<H, P, F>> :> FileEntry)
    @@ (<<H, P, U>> :> LockedDirEntry) @@ (<<H, P, U, R>> :> DirEntry)
    @@ (<<H, P, U, R, DotGit>> :> DirEntry)
    @@ (<<H, P, X>> :> DirEntry) @@ (<<H, P, X, DotGit>> :> DirEntry)
    @@ (<<S>> :> DirEntry) @@ (<<S, DotGit>> :> DirEntry)

\* where /h/p/l may point: into a repository, out of the home, at the home,
\* at itself, into the directory of mode 000
LinkTargets == {<<H, P, A>>, <<S>>, <<H>>, <<H, P, L>>, <<H, P, U, R>>}

MakeFs(linkTarget, homeIsRepo) ==
    BaseTree @@ (<<H, P, L>> :> LinkEntry(linkTarget))
    @@ (IF homeIsRepo THEN (<<H, DotGit>> :> DirEntry) ELSE <<>>)

FileSystems == {MakeFs(t, g) : t \in LinkTargets, g \in BOOLEAN}

Parent(p) == IF p = <<>> THEN <<>> ELSE SubSeq(p, 1, Len(p) - 1)

\* p.parents: the strict ancestors of an absolute path
Parents(p) == {SubSeq(p, 1, k) : k \in 0..(Len(p) - 1)}

\* every strict ancestor of p is a directory the process may search
Reachable(p) ==
    \A q \in Parents(p) : q \in DOMAIN fs /\ fs[q].kind = "dir" /\ fs[q].access

\* os.path.realpath(strict=False) of an absolute path, then pathlib's stat() for
\* ELOOP (Path.resolve, Python 3.10-3.12): a component that cannot be examined
\* is kept as it is, ".." steps up, a link is replaced by its target
RECURSIVE Realpath(_, _, _)
Realpath(cur, rest, hops) ==
    IF rest = <<>> THEN [ok |-> TRUE, path |-> cur]
    ELSE LET c == Head(rest)
             np == Append(cur, c)
         IN  IF c = DotDot THEN Realpath(Parent(cur), Tail(rest), hops)
             ELSE IF np \in DOMAIN fs /\ Reachable(np) /\ fs[np].kind = "link"
             THEN IF hops = 0 THEN [ok |-> FALSE, path |-> <<>>]
                  ELSE Realpath(<<>>, fs[np].target \o Tail(rest), hops - 1)
             ELSE Realpath(np, Tail(rest), hops)

\* os.stat of a path without links: the entry's kind, or the errno
StatReal(p) ==
    LET bad == {k \in 0..(Len(p) - 1) :
                    LET q == SubSeq(p, 1, k)
                    IN  ~(q \in DOMAIN fs /\ fs[q].kind = "dir" /\ fs[q].access)}
    IN  IF bad = {}
        THEN IF p \in DOMAIN fs THEN fs[p].kind ELSE "ENOENT"
        ELSE LET k == CHOOSE i \in bad : \A j \in bad : i <= j
                 q == SubSeq(p, 1, k)
             IN  IF q \notin DOMAIN fs THEN "ENOENT"
                 ELSE IF fs[q].kind # "dir" THEN "ENOTDIR"
                 ELSE "EACCES"

\* os.stat(p), following links
Stat(p) ==
    LET r == Realpath(<<>>, p, MaxLinkHops)
    IN  IF r.ok THEN StatReal(r.path) ELSE "ELOOP"

\* the errnos pathlib's _ignore_error swallows (ENOENT, ENOTDIR, EBADF, ELOOP)
Ignored == {"ENOENT", "ENOTDIR", "ELOOP"}

\* the answers of Stat that are errors
Errnos == {"ENOENT", "ENOTDIR", "ELOOP", "EACCES"}

\* Path.exists() (Python 3.10-3.13): an error that is not ignored is raised
PathExists(p) ==
    LET st == Stat(p)
    IN  [raised |-> st \in Errnos \ Ignored, value |-> st \notin Errnos]

\* Path.is_dir(), with the same rule for errors
PathIsDir(p) ==
    LET st == Stat(p)
    IN  [raised |-> st \in Errnos \ Ignored, value |-> st = "dir"]

\* Path(text): the parts between slashes, without the empty ones and "."
ParsePath(text) ==
    [abs |-> text # <<>> /\ Head(text) = "/",
     parts |-> SelectSeq(SplitOn(text, {"/"}, <<>>),
                         LAMBDA w : w # <<>> /\ w # Dot)]

\* Path.expanduser(): "~" is the home, "~name" an account nobody has
ExpandUser(pp) ==
    IF ~pp.abs /\ pp.parts # <<>> /\ Head(pp.parts[1]) = "~"
    THEN IF pp.parts[1] = Tilde
         THEN [ok |-> TRUE, abs |-> TRUE, parts |-> HomeDir \o Tail(pp.parts)]
         ELSE [ok |-> FALSE, abs |-> FALSE, parts |-> <<>>]
    ELSE [ok |-> TRUE, abs |-> pp.abs, parts |-> pp.parts]

\* Path(text).expanduser().resolve(): [ok, path]; not ok is an exception
ResolveText(text) ==
    LET e == ExpandUser(ParsePath(text))
    IN  IF ~e.ok THEN [ok |-> FALSE, path |-> <<>>]
        ELSE Realpath(<<>>, IF e.abs THEN e.parts ELSE Cwd \o e.parts, MaxLinkHops)

\* target_path.expanduser().resolve() of a Path that is already absolute
ResolvePath(p) == Realpath(<<>>, p, MaxLinkHops)

-----------------------------------------------------------------------------
(* Security checks: main.py:78-121 *)

\* the membership test alone: an empty list admits nobody
UserAllowedMembersOnly(user_id) == user_id \in config.allowed_user_ids

is_user_allowed(user_id) ==
    IF config.allowed_user_ids = {} THEN TRUE
    ELSE user_id \in config.allowed_user_ids

\* re.sub with count=1: only the first match is removed
RECURSIVE SanitizeFirstOnly(_)
SanitizeFirstOnly(text) ==
    IF text = <<>> THEN <<>>
    ELSE IF Head(text) \in Forbidden THEN Tail(text)
    ELSE <<Head(text)>> \o SanitizeFirstOnly(Tail(text))

sanitize_input(text) == SelectSeq(text, LAMBDA c : c \notin Forbidden)

\* the whitelist test by str.startswith instead of by the first word
ValidByPrefix(cmd) ==
    LET c == Strip(cmd) IN
    IF c = <<>> THEN <<FALSE, <<>>>>
    ELSE <<\E v \in config.allowed_git_commands :
               Len(v) <= Len(c) /\ SubSeq(c, 1, Len(v)) = v,
           Split(c)[1]>>

is_valid_git_command(cmd) ==
    LET c == Strip(cmd) IN
    IF c = <<>> THEN <<FALSE, <<>>>>
    ELSE LET first_word == Split(c)[1]
         IN  <<first_word \in config.allowed_git_commands, first_word>>


\* is_path_allowed without the test for the home directory
PathAllowedNoHomeGuard(target_path) ==
    LET r == ResolvePath(target_path)
    IN  IF ~r.ok THEN FALSE
        ELSE \E i \in 1..Len(config.allowed_paths) :
                LET allowed == config.allowed_paths[i]
                IN  r.path = allowed \/ allowed \in Parents(r.path)

is_path_allowed(target_path) ==
    LET r == ResolvePath(target_path)
        home == HomeDir
    IN  IF ~r.ok THEN FALSE                   \* except Exception
        ELSE IF r.path = home THEN FALSE
        ELSE \E i \in 1..Len(config.allowed_paths) :
                LET allowed == config.allowed_paths[i]
                IN  r.path = allowed \/ allowed \in Parents(r.path)

\* git_dir.exists() alone: a .git that is a file passes
GitRepoExistsOnly(path) == PathExists(Append(path, DotGit))

\* git_dir.exists() and git_dir.is_dir(); either call may raise
is_git_repo(path) ==
    LET git_dir == Append(path, DotGit)
        e == PathExists(git_dir)
        d == PathIsDir(git_dir)
    IN  IF e.raised THEN [raised |-> TRUE, value |-> FALSE]
        ELSE IF ~e.value THEN [raised |-> FALSE, value |-> FALSE]
        ELSE d

-----------------------------------------------------------------------------
(* Repository scan: main.py:124-142 *)

\* code points, as far as they order the characters of file names
CharCode(c) ==
    CASE c = "." -> 46 [] c = "a" -> 97 [] c = "b" -> 98 [] c = "c" -> 99
      [] c = "f" -> 102 [] c = "g" -> 103 [] c = "h" -> 104 [] c = "i" -> 105
      [] c = "l" -> 108 [] c = "n" -> 110 [] c = "p" -> 112 [] c = "r" -> 114
      [] c = "s" -> 115 [] c = "t" -> 116 [] c = "u" -> 117 [] c = "x" -> 120
      [] OTHER -> 0

\* s < t for strings, by code point
RECURSIVE StrLess(_, _)
StrLess(s, t) ==
    IF t = <<>> THEN FALSE
    ELSE IF s = <<>> THEN TRUE
    ELSE IF Head(s) = Head(t) THEN StrLess(Tail(s), Tail(t))
    ELSE CharCode(Head(s)) < CharCode(Head(t))

\* p < q for paths: the parts compared as a list of strings
RECURSIVE PathLess(_, _)
PathLess(p, q) ==
    IF q = <<>> THEN FALSE
    ELSE IF p = <<>> THEN TRUE
    ELSE IF Head(p) = Head(q) THEN PathLess(Tail(p), Tail(q))
    ELSE StrLess(Head(p), Head(q))

\* sorted(repos), for a list without repeated elements
RECURSIVE SortedPaths(_)
SortedPaths(ps) ==
    IF ps = {} THEN <<>>
    ELSE LET m == CHOOSE x \in ps : \A y \in ps \ {x} : PathLess(x, y)
         IN  <<m>> \o SortedPaths(ps \ {m})

\* path.iterdir(): the entries of the directory path leads to
IterDir(path) ==
    LET r == Realpath(<<>>, path, MaxLinkHops)
    IN  {Append(path, q[Len(q)]) : q \in {q \in DOMAIN fs : q # <<>> /\ Parent(q) = r.path}}

\* no name counts as hidden
NeverHidden(child) == FALSE

\* child.name.startswith(".")
IsHidden(child) == Head(child[Len(child)]) = "."

\* the children of path that search() descends into
ScannedChildren(path) ==
    {ch \in IterDir(path) : PathIsDir(ch).value /\ ~IsHidden(ch)}

\* the children of path whose child.is_dir() raises PermissionError: links
\* that lead into a directory the process may not search
FailingChildren(path) == {ch \in IterDir(path) : PathIsDir(ch).raised}

\* the children search() has descended into when its loop ends: all of them,
\* or those listed before the first child whose test raises
VisitedChildren(path) ==
    IF FailingChildren(path) = {} THEN ScannedChildren(path)
    ELSE ScannedChildren(path) \cap listing

\* search(path, depth): the repositories it appends.  A PermissionError of
\* (path / ".git").is_dir(), of path.iterdir() or of child.is_dir() ends
\* this call only.
RECURSIVE Search(_, _, _)
Search(path, depth, max_depth) ==
    IF depth > max_depth THEN {}
    ELSE LET g == PathIsDir(Append(path, DotGit))
         IN  IF g.raised THEN {}
             ELSE IF g.value THEN {path}
             ELSE UNION {Search(child, depth + 1, max_depth) :
                           child \in VisitedChildren(path)}

\* an exception leaves search(base_path, 0): path.iterdir() of what is not
\* a directory raises an OSError that is not a PermissionError.  Only the
\* base can be one: search() descends into directories.
SearchRaises(base_path, max_depth) ==
    /\ max_depth >= 0
    /\ ~PathIsDir(Append(base_path, DotGit)).raised
    /\ ~PathIsDir(Append(base_path, DotGit)).value
    /\ Stat(base_path) # "dir"

\* [raised, list]: the sorted list, unless an exception left search()
find_git_repos(base_path, max_depth) ==
    IF SearchRaises(base_path, max_depth) THEN [raised |-> TRUE, list |-> <<>>]
    ELSE [raised |-> FALSE,
          list |-> SortedPaths(Search(base_path, 0, max_depth))]

-----------------------------------------------------------------------------
(* Configuration: main.py:41-70 *)

\* command words of the model: "st" stands for status, "pl" for pull
St == <<"s", "t">>
Pl == <<"p", "l">>

\* machine names: "ho" for home, written with and without capitals
Ho == <<"h", "o">>
HoCap == <<"H", "o">>

\* text of a path, from its pieces
HomeText == <<"~">>
ProjectsText == <<"~", "/", "p">>
LinkText == <<"~", "/", "p", "/", "l">>
CheckoutText == <<"/", "s">>

\* config.json files the bot is started with
ConfigFiles ==
    {[machine_name |-> Ho, allowed_paths |-> <<ProjectsText>>,
      allowed_user_ids |-> {1}, allowed_git_commands |-> {St, Pl},
      command_timeout |-> 60, max_output_length |-> 3],
     [machine_name |-> HoCap, allowed_paths |-> <<ProjectsText, CheckoutText>>,
      allowed_user_ids |-> {}, allowed_git_commands |-> {St},
      command_timeout |-> 60, max_output_length |-> 0],
     [machine_name |-> Ho, allowed_paths |-> <<HomeText>>,
      allowed_user_ids |-> {1, 2}, allowed_git_commands |-> {St, Pl},
      command_timeout |-> 5, max_output_length |-> 2],
     [machine_name |-> Ho, allowed_paths |-> <<LinkText>>,
      allowed_user_ids |-> {1}, allowed_git_commands |-> {Pl},
      command_timeout |-> 60, max_output_length |-> 6],
     [machine_name |-> Ho, allowed_paths |-> <<>>,
      allowed_user_ids |-> {2}, allowed_git_commands |-> {},
      command_timeout |-> 60, max_output_length |-> -1]}

\* Config.load can be evaluated: no allowed path fails to resolve
Loadable(data) ==
    \A i \in 1..Len(data.allowed_paths) : ResolveText(data.allowed_paths[i]).ok

\* Config.load: the allowed paths are expanded and resolved once, here
ConfigLoad(data) ==
    [machine_name |-> data.machine_name,
     allowed_paths |-> [i \in 1..Len(data.allowed_paths) |->
                           ResolveText(data.allowed_paths[i]).path],
     allowed_user_ids |-> data.allowed_user_ids,
     allowed_git_commands |-> data.allowed_git_commands,
     command_timeout |-> data.command_timeout,
     max_output_length |-> data.max_output_length]

-----------------------------------------------------------------------------
(* Git execution: main.py:150-199 *)

\* longest standard output of a process in the model
MaxOutput == 3

\* the placeholder of main.py:175: "(", three CJK characters, ")"
NoOutput == <<"(", "U+7121", "U+8F38", "U+51FA", ")">>

\* the marker of main.py:178: a line break, "... (", three CJK characters, ")"
TruncMarker == <<"\n", ".", ".", ".", " ", "(", "U+5DF2", "U+622A", "U+65B7", ")">>

GitWord == <<"g", "i", "t", " ">>

NoError == [kind |-> "none", seconds |-> 0]

GitResult(success, output, return_code, error) ==
    [success |-> success, output |-> output, return_code |-> return_code,
     error |-> error]

\* f"git {git_cmd}", the command line handed to the shell
FullCommand(git_cmd) == GitWord \o git_cmd

\* what subprocess.run may do: the process exits with its output and status
\* (-1 is the status of a shell ended by signal 1), outlives the timeout, or
\* cannot be started
ProcRuns(outs, errs) ==
    [kind : {"exit"}, stdout : outs, stderr : errs, returncode : {0, 1, -1}]
    \cup {[kind |-> k, stdout |-> <<>>, stderr |-> <<>>, returncode |-> 0] :
            k \in {"timeout", "oserror"}}

\* main.py:177-178
Truncate(output) ==
    IF Len(output) > config.max_output_length
    THEN Prefix(output, config.max_output_length) \o TruncMarker
    ELSE output

\* the choice with standard error before standard output
SelectStderrFirst(stdout, stderr) ==
    IF Strip(stderr) # <<>> THEN Strip(stderr)
    ELSE IF Strip(stdout) # <<>> THEN Strip(stdout)
    ELSE NoOutput

\* main.py:175
SelectOutput(stdout, stderr) ==
    IF Strip(stdout) # <<>> THEN Strip(stdout)
    ELSE IF Strip(stderr) # <<>> THEN Strip(stderr)
    ELSE NoOutput

\* execute_git_command with a non-zero exit status reported as an error
ExecuteErrorOnFailure(path, git_cmd, run) ==
    IF run.kind = "exit" /\ run.returncode = 0
    THEN GitResult(TRUE, Truncate(SelectOutput(run.stdout, run.stderr)), 0, NoError)
    ELSE IF run.kind = "timeout"
    THEN GitResult(FALSE, <<>>, -1,
                   [kind |-> "timeout", seconds |-> config.command_timeout])
    ELSE GitResult(FALSE, <<>>, -1, [kind |-> "exception", seconds |-> 0])

execute_git_command(path, git_cmd, run) ==
    IF run.kind = "exit"
    THEN GitResult(run.returncode = 0,
                   Truncate(SelectOutput(run.stdout, run.stderr)),
                   run.returncode, NoError)
    ELSE IF run.kind = "timeout"
    THEN GitResult(FALSE, <<>>, -1,
                   [kind |-> "timeout", seconds |-> config.command_timeout])
    ELSE GitResult(FALSE, <<>>, -1, [kind |-> "exception", seconds |-> 0])

-----------------------------------------------------------------------------
(* The /git handler: main.py:312-443 *)

\* one call of find_git_repos, as the handlers record it
Scan(base, max_depth) == [base |-> base, max_depth |-> max_depth]

\* what one run of the handler did
Handled(state, done, sent, proc, res) ==
    [outcome |-> state, checks |-> done, replies |-> sent, spawned |-> proc,
     result |-> res, scanned |-> <<>>]

\* the reply of main.py:347 that later edits replace
Processing == [op |-> "reply", kind |-> "Processing", machine |-> config.machine_name]

\* the loop over config.allowed_paths of main.py:378-381 and 289-293 ends
\* with an exception: base.exists() raises, or find_git_repos does
ScanLoopRaises(max_depth) ==
    \E i \in 1..Len(config.allowed_paths) :
        LET base == config.allowed_paths[i]
        IN  \/ PathExists(base).raised
            \/ PathExists(base).value /\ SearchRaises(base, max_depth)

\* the calls of find_git_repos that loop makes, from index i on
RECURSIVE ScansFrom(_, _)
ScansFrom(i, max_depth) ==
    IF i > Len(config.allowed_paths) THEN <<>>
    ELSE LET base == config.allowed_paths[i]
         IN  IF PathExists(base).raised THEN <<>>
             ELSE IF ~PathExists(base).value THEN ScansFrom(i + 1, max_depth)
             ELSE IF SearchRaises(base, max_depth) THEN <<Scan(base, max_depth)>>
             ELSE <<Scan(base, max_depth)>> \o ScansFrom(i + 1, max_depth)

\* suggestions of main.py:377-381, before the cut to five: for base in
\* config.allowed_paths, from index i on, when the loop ends normally
RECURSIVE Suggestions(_)
Suggestions(i) ==
    IF i > Len(config.allowed_paths) THEN <<>>
    ELSE IF PathExists(config.allowed_paths[i]).value
    THEN Prefix(find_git_repos(config.allowed_paths[i], 2).list, 5)
             \o Suggestions(i + 1)
    ELSE Suggestions(i + 1)

\* main.py:419-443: run git and report
GitExecute(user_id, target_path, git_cmd, run, done) ==
    LET res == execute_git_command(target_path, git_cmd, run)
        project_name == IF target_path = <<>> THEN <<>>
                        ELSE target_path[Len(target_path)]
        shown == IF res.error.kind # "none"
                 THEN [op |-> "edit", kind |-> "Error", project |-> project_name,
                       error |-> res.error]
                 ELSE IF res.success
                 THEN [op |-> "edit", kind |-> "Success", project |-> project_name,
                       command |-> FullCommand(git_cmd), output |-> res.output]
                 ELSE [op |-> "edit", kind |-> "Failure", project |-> project_name,
                       command |-> FullCommand(git_cmd), output |-> res.output,
                       exit |-> res.return_code]
    IN  Handled("Executed", Append(done, "execute"), <<Processing, shown>>,
                <<[cwd |-> target_path, command |-> FullCommand(git_cmd)]>>,
                <<res>>)

\* main.py:366-417: resolve the path and test it
GitPathChecks(user_id, path_str, git_cmd, run, done) ==
    LET r == ResolveText(path_str)
        target_path == r.path
        e == PathExists(target_path)
        d == PathIsDir(target_path)
        g == is_git_repo(target_path)
        d1 == Append(done, "resolve")
        d2 == Append(d1, "exists")
        d3 == Append(d2, "isdir")
        d4 == Append(d3, "confined")
        d5 == Append(d4, "repo")
    IN  IF ~r.ok
        THEN Handled("InvalidPath", d1,
                     <<Processing, [op |-> "edit", kind |-> "InvalidPath",
                                    path |-> path_str]>>, <<>>, <<>>)
        ELSE IF e.raised THEN Handled("Fault", d2, <<Processing>>, <<>>, <<>>)
        ELSE IF ~e.value
        THEN IF ScanLoopRaises(2)
             THEN [Handled("Fault", d2, <<Processing>>, <<>>, <<>>)
                      EXCEPT !.scanned = ScansFrom(1, 2)]
             ELSE [Handled("PathNotFound", d2,
                           <<Processing, [op |-> "edit", kind |-> "NotFound",
                                          path |-> target_path,
                                          suggestions |-> Prefix(Suggestions(1), 5)]>>,
                           <<>>, <<>>)
                      EXCEPT !.scanned = ScansFrom(1, 2)]
        ELSE IF d.raised THEN Handled("Fault", d3, <<Processing>>, <<>>, <<>>)
        ELSE IF ~d.value
        THEN Handled("NotADirectory", d3,
                     <<Processing, [op |-> "edit", kind |-> "NotADirectory",
                                    path |-> target_path]>>, <<>>, <<>>)
        ELSE IF ~is_path_allowed(target_path)
        THEN Handled("PathNotConfined", d4,
                     <<Processing, [op |-> "edit", kind |-> "NotAllowedPath",
                                    path |-> target_path,
                                    allowed |-> config.allowed_paths]>>,
                     <<>>, <<>>)
        ELSE IF g.raised THEN Handled("Fault", d5, <<Processing>>, <<>>, <<>>)
        ELSE IF ~g.value
        THEN Handled("NotARepo", d5,
                     <<Processing, [op |-> "edit", kind |-> "NotARepo",
                                    path |-> target_path]>>, <<>>, <<>>)
        ELSE GitExecute(user_id, target_path, git_cmd, run, d5)

\* main.py:347-364: announce, sanitize both strings, test the command word
GitValidate(user_id, raw_path, raw_cmd, run, done) ==
    LET path_str == sanitize_input(raw_path)
        git_cmd == sanitize_input(raw_cmd)
        v == is_valid_git_command(git_cmd)
        d1 == Append(Append(done, "sanitize"), "verb")
    IN  IF ~v[1]
        THEN Handled("InvalidCommandVerb", d1,
                     <<Processing, [op |-> "edit", kind |-> "NotAllowedCommand",
                                    word |-> v[2],
                                    allowed |-> config.allowed_git_commands]>>,
                     <<>>, <<>>)
        ELSE GitPathChecks(user_id, path_str, git_cmd, run, d1)

\* machine.lower() in config.machine_name.lower(): a substring test
MachineIsPrefix(machine) ==
    LET m == StrLower(machine)
        n == StrLower(config.machine_name)
    IN  Len(m) <= Len(n) /\ SubSeq(n, 1, Len(m)) = m

\* main.py:344, the test negated
SameMachine(machine) == StrLower(machine) = StrLower(config.machine_name)

\* main.py:323-345 with the machine test moved before the argument count
GitArgsMachineFirst(user_id, args, run, done) ==
    IF Len(args) >= 1 /\ ~SameMachine(args[1])
    THEN Handled("NotThisMachine", Append(done, "machine"), <<>>, <<>>, <<>>)
    ELSE IF Len(args) < 3
    THEN Handled("Malformed", Append(Append(done, "machine"), "argcount"),
                 <<[op |-> "reply", kind |-> "Usage",
                    machine |-> config.machine_name]>>, <<>>, <<>>)
    ELSE GitValidate(user_id, args[2], JoinSpace(SubSeq(args, 3, Len(args))),
                     run, Append(Append(done, "machine"), "argcount"))

\* main.py:323-345: the argument count, then the machine token
GitArgs(user_id, args, run, done) ==
    IF Len(args) < 3
    THEN Handled("Malformed", Append(done, "argcount"),
                 <<[op |-> "reply", kind |-> "Usage",
                    machine |-> config.machine_name]>>, <<>>, <<>>)
    ELSE LET machine == args[1]
             path_str == args[2]
             git_cmd == JoinSpace(SubSeq(args, 3, Len(args)))
             d1 == Append(Append(done, "argcount"), "machine")
         IN  IF ~SameMachine(machine)
             THEN Handled("NotThisMachine", d1, <<>>, <<>>, <<>>)
             ELSE GitValidate(user_id, path_str, git_cmd, run, d1)

\* the handler; u is the update (user and arguments), run what the process does
git_command(u, run) ==
    IF ~is_user_allowed(u.user_id)
    THEN Handled("Unauthorized", <<"identity">>,
                 <<[op |-> "reply", kind |-> "NoPermission", user_id |-> u.user_id]>>,
                 <<>>, <<>>)
    ELSE GitArgs(u.user_id, u.args, run, <<"identity">>)

-----------------------------------------------------------------------------
(* The other handlers: main.py:207-309, 446-450 *)

\* the refusal of main.py:211-216
RefusedStart(user_id) ==
    Handled("Unauthorized", <<"identity">>,
            <<[op |-> "reply", kind |-> "NoPermissionStart", user_id |-> user_id]>>,
            <<>>, <<>>)

\* main.py:207-230
start_command(u) ==
    IF ~is_user_allowed(u.user_id) THEN RefusedStart(u.user_id)
    ELSE Handled("Answered", <<"identity">>,
                 <<[op |-> "reply", kind |-> "Welcome",
                    machine |-> config.machine_name]>>, <<>>, <<>>)

\* /help answered without the test of the identity
HelpNoGuard(u) ==
    Handled("Answered", <<"identity">>,
            <<[op |-> "reply", kind |-> "Help",
               commands |-> config.allowed_git_commands,
               machine |-> config.machine_name]>>, <<>>, <<>>)

\* main.py:234-257
help_command(u) ==
    IF ~is_user_allowed(u.user_id)
    THEN Handled("Unauthorized", <<"identity">>, <<>>, <<>>, <<>>)
    ELSE Handled("Answered", <<"identity">>,
                 <<[op |-> "reply", kind |-> "Help",
                    commands |-> config.allowed_git_commands,
                    machine |-> config.machine_name]>>, <<>>, <<>>)

\* main.py:260-278
status_command(u) ==
    IF ~is_user_allowed(u.user_id)
    THEN Handled("Unauthorized", <<"identity">>,
                 <<[op |-> "reply", kind |-> "NoPermissionStatus",
                    user_id |-> u.user_id]>>, <<>>, <<>>)
    ELSE Handled("Answered", <<"identity">>,
                 <<[op |-> "reply", kind |-> "Status",
                    machine |-> config.machine_name,
                    allowed |-> config.allowed_paths]>>, <<>>, <<>>)

\* the loop of main.py:289-293 from index i on, when it ends normally:
\* every repository of every allowed path that exists, three levels deep
RECURSIVE AllRepos(_)
AllRepos(i) ==
    IF i > Len(config.allowed_paths) THEN <<>>
    ELSE IF PathExists(config.allowed_paths[i]).value
    THEN find_git_repos(config.allowed_paths[i], 3).list \o AllRepos(i + 1)
    ELSE AllRepos(i + 1)

\* the message of main.py:287
Scanning == [op |-> "reply", kind |-> "Scanning"]

\* the second message of /list, main.py:295-309
ListReply(all_repos) ==
    IF all_repos = <<>>
    THEN [op |-> "reply", kind |-> "NoRepos", allowed |-> config.allowed_paths]
    ELSE [op |-> "reply", kind |-> "RepoList", count |-> Len(all_repos),
          repos |-> Prefix(all_repos, 30)]

\* main.py:281-309
list_command(u) ==
    IF ~is_user_allowed(u.user_id)
    THEN Handled("Unauthorized", <<"identity">>, <<>>, <<>>, <<>>)
    ELSE IF ScanLoopRaises(3)
    THEN [Handled("Fault", <<"identity">>, <<Scanning>>, <<>>, <<>>)
             EXCEPT !.scanned = ScansFrom(1, 3)]
    ELSE [Handled("Answered", <<"identity">>,
                  <<Scanning, ListReply(AllRepos(1))>>, <<>>, <<>>)
             EXCEPT !.scanned = ScansFrom(1, 3)]

\* main.py:446-450
unknown_command(u) ==
    IF ~is_user_allowed(u.user_id)
    THEN Handled("Unauthorized", <<"identity">>, <<>>, <<>>, <<>>)
    ELSE Handled("Answered", <<"identity">>,
                 <<[op |-> "reply", kind |-> "Unknown"]>>, <<>>, <<>>)

-----------------------------------------------------------------------------
(* Inputs *)

\* most words of the git command in one update
MaxCmdWords == 2

Users == {1, 2}

\* machine tokens: this machine in two spellings, a prefix of it, another one
MachineTokens == {Ho, HoCap, <<"h">>, <<"o", "f">>}

RepoText == <<"~", "/", "p", "/", "a">>

\* path arguments, as typed
PathTexts ==
    {HomeText,                                     \* the home directory
     ProjectsText,                                 \* a directory, no repository
     RepoText,                                     \* a repository
     <<"~", "/", "p", "/", ";", "a">>,             \* the same, with a metacharacter
     <<"~", "/", "p", "/", "b">>,                  \* .git is a file
     <<"~", "/", "p", "/", "f">>,                  \* a file
     LinkText,                                     \* the link
     <<"~", "/", "p", "/", "u">>,                  \* the directory of mode 000
     <<"~", "/", "p", "/", "u", "/", "r">>,        \* beneath it
     <<"~", "/", "p", "/", "g">>,                  \* nothing there
     <<"~", "/", "p", "/", ".", ".">>,             \* the home directory again
     <<"~", "a">>,                                 \* the home of an unknown user
     CheckoutText,                                 \* the bot's checkout
     <<"$">>}                                      \* sanitized to "", the cwd

\* words of the git command, as typed
CmdWords == {St, Pl, <<"s", "t", ";">>, <<";">>}

\* commands of several words
CmdWordLists == UNION {[1..k -> CmdWords] : k \in 2..MaxCmdWords}

\* context.args: no argument, the machine only, machine and path, every
\* machine and path with a command of one word, and commands of several
\* words for this machine
ArgLists ==
    {<<>>} \cup {<<m>> : m \in MachineTokens}
    \cup {<<m, St>> : m \in MachineTokens}
    \cup {<<m, p, w>> : m \in MachineTokens, p \in PathTexts, w \in CmdWords}
    \cup {<<Ho, p>> \o ws : p \in {RepoText, HomeText}, ws \in CmdWordLists}

Updates == [command : {"git"}, user_id : Users, args : ArgLists]

\* what the git process does when the handler runs it
HandlerRuns ==
    {[kind |-> "exit", stdout |-> <<"o", "k">>, stderr |-> <<>>, returncode |-> 0],
     [kind |-> "exit", stdout |-> <<>>, stderr |-> <<"e", "r", "r", "o", "r">>,
      returncode |-> 1],
     [kind |-> "timeout", stdout |-> <<>>, stderr |-> <<>>, returncode |-> 0],
     [kind |-> "oserror", stdout |-> <<>>, stderr |-> <<>>, returncode |-> 0]}

-----------------------------------------------------------------------------
(* The bot: one action per handler *)

NoUpdate == [command |-> "none", user_id |-> 0, args |-> <<>>]
NoCall == [fn |-> "none", arg |-> <<>>, ret |-> <<>>]

\* no call of execute_git_command in progress, no process
NoExec ==
    [pc |-> "idle", shell |-> "none", below |-> "none", spawns |-> 0,
     timedout |-> FALSE]

\* no update waiting, none served
NoLoop == [pending |-> FALSE, served |-> 0]

\* the scanned children of a directory with a failing child, in the order
\* of their names
ListedSiblings ==
    LET dirs == {Parent(p) : p \in {q \in DOMAIN fs : q # <<>>}}
        sibs == UNION {ScannedChildren(d) : d \in {d \in dirs :
                           Stat(d) = "dir" /\ FailingChildren(d) # {}}}
    IN  SortedPaths(sibs)

\* directory listings: the failing child comes after the first k of them
Listings ==
    {{ListedSiblings[i] : i \in 1..k} : k \in 0..Len(ListedSiblings)}

Init ==
    /\ fs \in FileSystems
    /\ listing \in Listings
    /\ \E data \in ConfigFiles : Loadable(data) /\ config = ConfigLoad(data)
    /\ update = NoUpdate
    /\ outcome = "Idle"
    /\ checks = <<>>
    /\ replies = <<>>
    /\ spawned = <<>>
    /\ scanned = <<>>
    /\ result = <<>>
    /\ call = NoCall
    /\ exec = NoExec
    /\ loop = NoLoop

\* the process's behaviour is an input only of an update that starts one
RunsOf(u) ==
    IF git_command(u, CHOOSE r \in HandlerRuns : TRUE).spawned = <<>>
    THEN {CHOOSE r \in HandlerRuns : TRUE}
    ELSE HandlerRuns

\* CommandHandler("git", git_command) handles one update, from its first line
\* to its return
GitCommand ==
    /\ outcome = "Idle"
    /\ \E u \in Updates : \E run \in RunsOf(u) :
        LET h == git_command(u, run)
        IN  /\ update' = u
            /\ outcome' = h.outcome
            /\ checks' = h.checks
            /\ replies' = h.replies
            /\ spawned' = h.spawned
            /\ scanned' = h.scanned
            /\ result' = h.result
    /\ UNCHANGED <<config, fs, listing, call, exec, loop>>

\* the dispatcher of run_polling goes on to the next update; nothing of the
\* handled one is kept
NextUpdate ==
    /\ outcome # "Idle"
    /\ update' = NoUpdate
    /\ outcome' = "Idle"
    /\ checks' = <<>>
    /\ replies' = <<>>
    /\ spawned' = <<>>
    /\ scanned' = <<>>
    /\ result' = <<>>
    /\ UNCHANGED <<config, fs, listing, call, exec, loop>>

Next == GitCommand \/ NextUpdate

Spec == Init /\ [][Next]_vars

\* the updates of the commands that take no argument
PlainUpdates(command) == [command : {command}, user_id : Users, args : {<<>>}]

\* what a handler did becomes the state of the bot
Record(u, h) ==
    /\ update' = u
    /\ outcome' = h.outcome
    /\ checks' = h.checks
    /\ replies' = h.replies
    /\ spawned' = h.spawned
    /\ scanned' = h.scanned
    /\ result' = h.result
    /\ UNCHANGED <<config, fs, listing, call, exec, loop>>

\* main.py:473
StartCommand ==
    /\ outcome = "Idle"
    /\ \E u \in PlainUpdates("start") : Record(u, start_command(u))

\* main.py:474
HelpCommand ==
    /\ outcome = "Idle"
    /\ \E u \in PlainUpdates("help") : Record(u, help_command(u))

\* main.py:475
StatusCommand ==
    /\ outcome = "Idle"
    /\ \E u \in PlainUpdates("status") : Record(u, status_command(u))

\* main.py:476
ListCommand ==
    /\ outcome = "Idle"
    /\ \E u \in PlainUpdates("list") : Record(u, list_command(u))

\* main.py:478: any other command
UnknownCommand ==
    /\ outcome = "Idle"
    /\ \E u \in PlainUpdates("unknown") : Record(u, unknown_command(u))

\* every handler main() registers
NextBot ==
    \/ StartCommand
    \/ HelpCommand
    \/ StatusCommand
    \/ ListCommand
    \/ GitCommand
    \/ UnknownCommand
    \/ NextUpdate

SpecBot == Init /\ [][NextBot]_vars

-----------------------------------------------------------------------------
(* The functions called directly, on inputs of their own *)

\* characters of the strings given to sanitize_input
SanitizeAlphabet == Forbidden \cup {"a", " "}

\* characters of the command lines given to is_valid_git_command
CommandAlphabet == {"s", "t", " ", "\t"}

\* identities given to is_user_allowed
Identities == {1, 2, 3}

\* paths given to is_path_allowed: absolute, not yet resolved
TargetPaths ==
    {<<>>, <<H>>, <<H, P>>, <<H, P, A>>, <<H, P, A, N>>, <<H, P, L>>,
     <<H, P, L, A>>, <<H, P, DotDot>>, <<H, P, A, DotDot, DotDot, DotDot>>,
     <<H, P, <<"g">>>>, <<H, P, U, R>>, <<H, <<"q">>>>, <<S>>, <<S, DotGit>>}

\* what the process of a direct call of execute_git_command does
DirectRuns ==
    ProcRuns(StringsUpTo({"x", " "}, MaxOutput), StringsUpTo({"e", " "}, 1))

\* deepest max_depth given to find_git_repos directly; main.py:124 has 3 as
\* the default and main.py:380 passes 2
MaxDepth == 3

\* directories given to find_git_repos as base_path
ScanRoots ==
    {<<H>>, <<H, P>>, <<H, P, A>>, <<H, P, B>>, <<H, P, U>>, <<H, P, X>>,
     <<H, P, L>>, <<H, P, F>>, <<S>>}

\* a call is made when none is recorded
CallSanitize ==
    /\ call = NoCall
    /\ \E s \in StringsUpTo(SanitizeAlphabet, MaxLen) :
        call' = [fn |-> "sanitize_input", arg |-> s, ret |-> sanitize_input(s)]
    /\ UNCHANGED <<config, fs, listing, update, outcome, checks, replies, spawned,
                   scanned, result, exec, loop>>

CallIsValidGitCommand ==
    /\ call = NoCall
    /\ \E cmd \in StringsUpTo(CommandAlphabet, MaxLen) :
        call' = [fn |-> "is_valid_git_command", arg |-> cmd,
                 ret |-> is_valid_git_command(cmd)]
    /\ UNCHANGED <<config, fs, listing, update, outcome, checks, replies, spawned,
                   scanned, result, exec, loop>>

CallIsUserAllowed ==
    /\ call = NoCall
    /\ \E u \in Identities :
        call' = [fn |-> "is_user_allowed", arg |-> u, ret |-> is_user_allowed(u)]
    /\ UNCHANGED <<config, fs, listing, update, outcome, checks, replies, spawned,
                   scanned, result, exec, loop>>

CallIsPathAllowed ==
    /\ call = NoCall
    /\ \E p \in TargetPaths :
        call' = [fn |-> "is_path_allowed", arg |-> p, ret |-> is_path_allowed(p)]
    /\ UNCHANGED <<config, fs, listing, update, outcome, checks, replies, spawned,
                   scanned, result, exec, loop>>

CallExecuteGitCommand ==
    /\ call = NoCall
    /\ \E run \in DirectRuns :
        call' = [fn |-> "execute_git_command", arg |-> run,
                 ret |-> execute_git_command(<<H, P, A>>, St, run)]
    /\ UNCHANGED <<config, fs, listing, update, outcome, checks, replies, spawned,
                   scanned, result, exec, loop>>

CallFindGitRepos ==
    /\ call = NoCall
    /\ \E base \in ScanRoots : \E d \in 0..MaxDepth :
        call' = [fn |-> "find_git_repos", arg |-> Scan(base, d),
                 ret |-> find_git_repos(base, d)]
    /\ UNCHANGED <<config, fs, listing, update, outcome, checks, replies, spawned,
                   scanned, result, exec, loop>>

\* the call returns; its record is dropped
CallReturn ==
    /\ call # NoCall
    /\ call' = NoCall
    /\ UNCHANGED <<config, fs, listing, update, outcome, checks, replies, spawned,
                   scanned, result, exec, loop>>

\* the functions that read the configuration or the filesystem
NextFn ==
    \/ CallIsValidGitCommand
    \/ CallIsUserAllowed
    \/ CallIsPathAllowed
    \/ CallExecuteGitCommand
    \/ CallFindGitRepos
    \/ CallReturn

SpecFn == Init /\ [][NextFn]_vars

\* sanitize_input reads neither: one configuration and one filesystem
InitStr ==
    /\ fs = MakeFs(<<S>>, FALSE)
    /\ listing = {}
    /\ config = ConfigLoad(CHOOSE data \in ConfigFiles : data.allowed_user_ids = {})
    /\ update = NoUpdate
    /\ outcome = "Idle"
    /\ checks = <<>>
    /\ replies = <<>>
    /\ spawned = <<>>
    /\ scanned = <<>>
    /\ result = <<>>
    /\ call = NoCall
    /\ exec = NoExec
    /\ loop = NoLoop

NextStr == CallSanitize \/ CallReturn

SpecStr == InitStr /\ [][NextStr]_vars

-----------------------------------------------------------------------------
(* One call of execute_git_command, step by step: main.py:160-199 with      *)
(* subprocess.run of CPython on POSIX.  exec.pc is where the call stands:   *)
(* "communicate" inside Popen.communicate(timeout=...), "expired" when that *)
(* has raised TimeoutExpired, "killed" after process.kill(), "returned"     *)
(* with the GitResult.  exec.shell is the process Popen started, /bin/sh    *)
(* -c "git ...": "running", "exited" (ended, exit status not yet            *)
(* collected) or "reaped".  exec.below stands for the processes under it:   *)
(* git when the shell forks rather than execs, and the helpers git starts   *)
(* (a transport, a pager, a hook).  They hold the write ends of the pipes.  *)

\* most updates served while the model counts them
MaxServed == 2

\* the requests execute_git_command is called with: a repository, a verb
ExecRequests == {[cwd |-> <<H, P, A>>, git_cmd |-> w] : w \in {St, Pl}}

RunOfKind(k) == CHOOSE run \in HandlerRuns : run.kind = k

\* git_cmd of the call that started proc
GitCmdOf(proc) == SubSeq(proc.command, Len(GitWord) + 1, Len(proc.command))

\* the thread of the event loop is inside subprocess.run
Executing == exec.pc \in {"communicate", "expired", "killed"}

\* main.py:165: Popen starts the shell and communicate() begins to wait
ExecCall ==
    /\ exec.pc = "idle"
    /\ \E rq \in ExecRequests :
          spawned' = <<[cwd |-> rq.cwd, command |-> FullCommand(rq.git_cmd)]>>
    /\ exec' = [pc |-> "communicate", shell |-> "running", below |-> "none",
                spawns |-> exec.spawns + 1, timedout |-> FALSE]
    /\ result' = <<>>
    /\ loop' = [loop EXCEPT !.served = 0]
    /\ UNCHANGED <<config, fs, listing, update, outcome, checks, replies,
                   scanned, call>>

\* main.py:165, 193-199: Popen raises (the directory has gone, no memory);
\* no process was started
ExecSpawnFails ==
    /\ exec.pc = "idle"
    /\ \E rq \in ExecRequests :
        /\ spawned' = <<[cwd |-> rq.cwd, command |-> FullCommand(rq.git_cmd)]>>
        /\ result' = <<execute_git_command(rq.cwd, rq.git_cmd, RunOfKind("oserror"))>>
    /\ exec' = [exec EXCEPT !.pc = "returned"]
    /\ loop' = [loop EXCEPT !.served = 0]
    /\ UNCHANGED <<config, fs, listing, update, outcome, checks, replies,
                   scanned, call>>

\* the shell forks git, or git starts a helper
BelowStarts ==
    /\ exec.shell = "running"
    /\ exec.below = "none"
    /\ exec' = [exec EXCEPT !.below = "running"]
    /\ UNCHANGED <<config, fs, listing, update, outcome, checks, replies,
                   spawned, scanned, result, call, loop>>

\* the processes under the shell end
BelowEnds ==
    /\ exec.below = "running"
    /\ exec' = [exec EXCEPT !.below = "ended"]
    /\ UNCHANGED <<config, fs, listing, update, outcome, checks, replies,
                   spawned, scanned, result, call, loop>>

\* the shell ends by itself
ShellExits ==
    /\ exec.shell = "running"
    /\ exec' = [exec EXCEPT !.shell = "exited"]
    /\ UNCHANGED <<config, fs, listing, update, outcome, checks, replies,
                   spawned, scanned, result, call, loop>>

\* main.py:165-184: communicate() has read both pipes to their end, which
\* needs every holder of a write end gone, and has collected the exit status
CommunicateReturns ==
    /\ exec.pc = "communicate"
    /\ exec.shell = "exited"
    /\ exec.below # "running"
    /\ \E run \in {r \in HandlerRuns : r.kind = "exit"} :
          result' = <<execute_git_command(spawned[1].cwd, GitCmdOf(spawned[1]), run)>>
    /\ exec' = [exec EXCEPT !.pc = "returned", !.shell = "reaped"]
    /\ UNCHANGED <<config, fs, listing, update, outcome, checks, replies,
                   spawned, scanned, call, loop>>

\* subprocess.run without timeout=: the timer never ends the wait
TimerNever ==
    /\ exec.pc = "never"
    /\ UNCHANGED vars

\* main.py:171: timeout=config.command_timeout ends the wait of communicate()
TimerExpires ==
    /\ exec.pc = "communicate"
    /\ exec' = [exec EXCEPT !.pc = "expired", !.timedout = TRUE]
    /\ UNCHANGED <<config, fs, listing, update, outcome, checks, replies,
                   spawned, scanned, result, call, loop>>

\* subprocess.run on TimeoutExpired: process.kill() signals the shell, and
\* only the shell
Kill ==
    /\ exec.pc = "expired"
    /\ exec' = [exec EXCEPT !.pc = "killed",
                            !.shell = IF @ = "running" THEN "exited" ELSE @]
    /\ UNCHANGED <<config, fs, listing, update, outcome, checks, replies,
                   spawned, scanned, result, call, loop>>

\* subprocess.run on TimeoutExpired: process.wait() collects the shell, the
\* pipes are closed unread, and main.py:186-192 returns the timeout result
Wait ==
    /\ exec.pc = "killed"
    /\ result' = <<execute_git_command(spawned[1].cwd, GitCmdOf(spawned[1]),
                                       RunOfKind("timeout"))>>
    /\ exec' = [exec EXCEPT !.pc = "returned", !.shell = "reaped"]
    /\ UNCHANGED <<config, fs, listing, update, outcome, checks, replies,
                   spawned, scanned, call, loop>>

\* main.py:421-443: the handler has its result and finishes
ExecDone ==
    /\ exec.pc = "returned"
    /\ exec' = NoExec
    /\ spawned' = <<>>
    /\ result' = <<>>
    /\ UNCHANGED <<config, fs, listing, update, outcome, checks, replies,
                   scanned, call, loop>>

\* Telegram has another update for the bot
UpdateArrives ==
    /\ ~loop.pending
    /\ loop' = [loop EXCEPT !.pending = TRUE]
    /\ UNCHANGED <<config, fs, listing, update, outcome, checks, replies,
                   spawned, scanned, result, call, exec>>

\* main.py:480: the event loop fetches the update and runs its handler to
\* the end.  The loop has one thread; main.py:421 calls execute_git_command
\* on it without await, so it is not free during the call.
ServeOther ==
    /\ loop.pending
    /\ ~Executing
    /\ loop.served < MaxServed
    /\ loop' = [pending |-> FALSE, served |-> loop.served + 1]
    /\ UNCHANGED <<config, fs, listing, update, outcome, checks, replies,
                   spawned, scanned, result, call, exec>>

InitExec ==
    /\ fs \in {MakeFs(<<S>>, g) : g \in BOOLEAN}
    /\ listing = {}
    /\ \E data \in ConfigFiles : Loadable(data) /\ config = ConfigLoad(data)
    /\ update = NoUpdate
    /\ outcome = "Idle"
    /\ checks = <<>>
    /\ replies = <<>>
    /\ spawned = <<>>
    /\ scanned = <<>>
    /\ result = <<>>
    /\ call = NoCall
    /\ exec = NoExec
    /\ loop = NoLoop

NextExec ==
    \/ ExecCall
    \/ ExecSpawnFails
    \/ BelowStarts
    \/ BelowEnds
    \/ ShellExits
    \/ CommunicateReturns
    \/ TimerExpires
    \/ Kill
    \/ Wait
    \/ ExecDone
    \/ UpdateArrives
    \/ ServeOther

SpecExec == InitExec /\ [][NextExec]_vars

\* the timer of communicate() runs out, and kill() and wait() return: the
\* kernel delivers SIGKILL whatever the process does
SpecExecFair ==
    /\ InitExec
    /\ [][NextExec]_vars
    /\ WF_vars(TimerExpires)
    /\ WF_vars(Kill)
    /\ WF_vars(Wait)

-----------------------------------------------------------------------------
(* Properties of the /git handler, stated on the update, the configuration  *)
(* and the filesystem                                                       *)

Handling == outcome # "Idle"

\* the identity of the update is on the list, or the list is empty
Authorized ==
    config.allowed_user_ids = {} \/ update.user_id \in config.allowed_user_ids

\* s without the characters of the forbidden class, the rest in order
Cleaned(s) == SelectSeq(s, LAMBDA c : c \notin Forbidden)

\* the command line of the update, as typed and after cleaning
TypedCommand == JoinSpace(SubSeq(update.args, 3, Len(update.args)))
CleanCommand == Cleaned(TypedCommand)

\* the machine token of the update names this machine, whatever the case
TokenMatches == StrLower(update.args[1]) = StrLower(config.machine_name)

\* root is t or a directory above t
Within(root, t) == Len(root) <= Len(t) /\ SubSeq(t, 1, Len(root)) = root

UnderAllowedRoot(t) ==
    \E i \in 1..Len(config.allowed_paths) : Within(config.allowed_paths[i], t)

IsDirectory(t) == t \in DOMAIN fs /\ fs[t].kind = "dir"

\* C1: git is started only for an authorized identity, a command whose first
\* word is on the whitelist, and a resolved target that exists, is a
\* directory, is an allowed root or beneath one, is not the home directory
\* and holds a .git directory.
C1_ExecutedOnlyIfAllChecksHeld ==
    spawned # <<>> =>
        /\ Authorized
        /\ Len(update.args) >= 3
        /\ Split(CleanCommand) # <<>>
        /\ Split(CleanCommand)[1] \in config.allowed_git_commands
        /\ LET t == spawned[1].cwd
           IN  /\ ResolveText(Cleaned(update.args[2])) = [ok |-> TRUE, path |-> t]
               /\ IsDirectory(t)
               /\ UnderAllowedRoot(t)
               /\ t # HomeDir
               /\ IsDirectory(Append(t, DotGit))

\* git was started in a repository reached through the symbolic link
C1_Witness ==
    /\ outcome = "Executed"
    /\ spawned # <<>>
    /\ update.args[2] = LinkText
    /\ spawned[1].cwd = <<H, P, A>>

\* the order of the checks, and the state each ends in when it fails
CheckOrder ==
    <<"identity", "argcount", "machine", "sanitize", "verb", "resolve",
      "exists", "isdir", "confined", "repo", "execute">>

StateOfCheck ==
    <<"Unauthorized", "Malformed", "NotThisMachine", "-", "InvalidCommandVerb",
      "InvalidPath", "PathNotFound", "NotADirectory", "PathNotConfined",
      "NotARepo", "Executed">>

\* the resolved target of the update, where there is a path argument
Target == ResolveText(Cleaned(update.args[2]))

\* check k of the order, taken alone, does not pass for the update
FailsCheck(k) ==
    CASE k = 1 -> ~Authorized
      [] k = 2 -> Len(update.args) < 3
      [] k = 3 -> Len(update.args) >= 1 /\ ~TokenMatches
      [] k = 5 -> Len(update.args) >= 3 /\ ~is_valid_git_command(CleanCommand)[1]
      [] k = 6 -> Len(update.args) >= 2 /\ ~Target.ok
      [] k = 7 -> Len(update.args) >= 2 /\ Target.ok
                  /\ ~PathExists(Target.path).value
      [] k = 8 -> Len(update.args) >= 2 /\ Target.ok
                  /\ ~PathIsDir(Target.path).value
      [] k = 9 -> Len(update.args) >= 2 /\ Target.ok
                  /\ ~is_path_allowed(Target.path)
      [] k = 10 -> Len(update.args) >= 2 /\ Target.ok
                   /\ ~is_git_repo(Target.path).value
      [] OTHER -> FALSE

FailingChecks == {k \in 1..10 : FailsCheck(k)}

FirstFailing ==
    IF FailingChecks = {} THEN 11
    ELSE CHOOSE k \in FailingChecks : \A j \in FailingChecks : k <= j

TokenDiffers == Len(update.args) >= 1 /\ ~TokenMatches

\* C3 as claimed: every update whose machine token differs from this
\* machine's name is ignored without any reply and without running git.
C3_MismatchAlwaysSilent ==
    (Handling /\ TokenDiffers) => (replies = <<>> /\ spawned = <<>>)

\* C3 as amended: an update of an authorized identity with three arguments or
\* more whose machine token differs from this machine's name ends in
\* NotThisMachine without any reply and without running git.
C3_MismatchSilentAfterIdentityAndArity ==
    (Handling /\ Authorized /\ Len(update.args) >= 3 /\ TokenDiffers) =>
        (outcome = "NotThisMachine" /\ replies = <<>> /\ spawned = <<>>)

\* an update for another machine that would otherwise have run git
C3_Witness ==
    /\ outcome = "NotThisMachine"
    /\ Authorized
    /\ update.args[2] = RepoText
    /\ replies = <<>>

\* C4: the command line handed to the shell is "git " and the typed command
\* line without the forbidden characters, its first word is the word that was
\* tested against the whitelist, and the directory is the one the typed path
\* resolves to without them.
C4_OnlySanitizedStringsReachTheShell ==
    spawned # <<>> =>
        /\ \A i \in 1..Len(spawned[1].command) :
              spawned[1].command[i] \notin Forbidden
        /\ spawned[1].command = GitWord \o CleanCommand
        /\ Split(SubSeq(spawned[1].command, Len(GitWord) + 1,
                        Len(spawned[1].command)))[1]
              \in config.allowed_git_commands
        /\ ResolveText(Cleaned(update.args[2])).path = spawned[1].cwd

\* "st; pl" was typed and "git st pl" was run
C4_Witness ==
    /\ spawned # <<>>
    /\ Len(update.args) = 4
    /\ update.args[3] = <<"s", "t", ";">>
    /\ spawned[1].command = GitWord \o <<"s", "t", " ", "p", "l">>

\* C5: is_user_allowed is true exactly for every identity when the list is
\* empty and for the members when it is not; the handler ends in
\* Unauthorized, with no other check made, exactly for the others.
C5_IdentityCheck ==
    /\ \A u \in Identities :
          is_user_allowed(u) =
              (config.allowed_user_ids = {} \/ u \in config.allowed_user_ids)
    /\ Handling =>
          IF config.allowed_user_ids # {}
             /\ update.user_id \notin config.allowed_user_ids
          THEN outcome = "Unauthorized" /\ checks = <<"identity">>
               /\ spawned = <<>>
          ELSE outcome # "Unauthorized" /\ Len(checks) >= 2

\* with an empty list, an identity nobody listed ran git
C5_Witness ==
    /\ config.allowed_user_ids = {}
    /\ outcome = "Executed"

-----------------------------------------------------------------------------
(* Properties of the functions, stated on the recorded call *)

\* the resolved form of the path given to is_path_allowed
CallTarget == ResolvePath(call.arg)

\* C6: is_path_allowed is false when the path cannot be resolved; on the
\* resolved path it is false outside every allowed root, false for the home
\* directory whatever the roots are, and true for every other path that is
\* an allowed root or beneath one.
C6_PathConfinement ==
    call.fn = "is_path_allowed" =>
        IF ~CallTarget.ok THEN call.ret = FALSE
        ELSE LET t == CallTarget.path
             IN  /\ ~UnderAllowedRoot(t) => call.ret = FALSE
                 /\ t = HomeDir => call.ret = FALSE
                 /\ (UnderAllowedRoot(t) /\ t # HomeDir) => call.ret = TRUE

\* the home directory, reached through the link, is refused although the
\* home directory is an allowed root
C6_Witness ==
    /\ call.fn = "is_path_allowed"
    /\ call.arg = <<H, P, L>>
    /\ CallTarget = [ok |-> TRUE, path |-> HomeDir]
    /\ \E i \in 1..Len(config.allowed_paths) : config.allowed_paths[i] = HomeDir
    /\ call.ret = FALSE

\* C7: an update of an authorized identity, with three arguments or more,
\* for this machine, with a whitelisted command word, whose path resolves to
\* the home directory ends in PathNotConfined and git is not run.
C7_HomeIsNeverATarget ==
    (/\ Handling
     /\ Authorized
     /\ Len(update.args) >= 3
     /\ TokenMatches
     /\ Split(CleanCommand) # <<>>
     /\ Split(CleanCommand)[1] \in config.allowed_git_commands
     /\ Target = [ok |-> TRUE, path |-> HomeDir])
    => (outcome = "PathNotConfined" /\ spawned = <<>>)

\* the home directory is an allowed root and a repository, and is refused
C7_Witness ==
    /\ outcome = "PathNotConfined"
    /\ Len(update.args) >= 3
    /\ Target = [ok |-> TRUE, path |-> HomeDir]
    /\ \E i \in 1..Len(config.allowed_paths) : config.allowed_paths[i] = HomeDir
    /\ IsDirectory(<<H, DotGit>>)

\* the first word of line: the run of other characters after the leading
\* whitespace, up to the next whitespace or the end
IsFirstWord(w, line) ==
    \E i \in 1..Len(line) : \E j \in i..Len(line) :
        /\ \A k \in 1..(i - 1) : line[k] \in Whitespace
        /\ \A k \in i..j : line[k] \notin Whitespace
        /\ j = Len(line) \/ line[j + 1] \in Whitespace
        /\ w = SubSeq(line, i, j)

\* C8: is_valid_git_command returns (false, "") for a line of whitespace
\* only, and otherwise the first word of the line with whether that word is
\* on the whitelist.
C8_CommandWordValidation ==
    call.fn = "is_valid_git_command" =>
        IF \A k \in 1..Len(call.arg) : call.arg[k] \in Whitespace
        THEN call.ret = <<FALSE, <<>>>>
        ELSE /\ IsFirstWord(call.ret[2], call.arg)
             /\ call.ret[1] = (call.ret[2] \in config.allowed_git_commands)

\* a line with whitespace around a whitelisted word is accepted
C8_Witness ==
    /\ call.fn = "is_valid_git_command"
    /\ call.arg = <<" ", "s", "t">>
    /\ call.ret = <<TRUE, St>>

\* the positions of s that hold a character outside the forbidden class
KeptPositions(s) == {i \in 1..Len(s) : s[i] \notin Forbidden}

\* C9: sanitize_input applied to its own output changes nothing, its output
\* holds no forbidden character, and its output is the other characters of
\* its input, each in its place among them.
C9_SanitizeIdempotentAndClean ==
    call.fn = "sanitize_input" =>
        /\ sanitize_input(call.ret) = call.ret
        /\ \A i \in 1..Len(call.ret) : call.ret[i] \notin Forbidden
        /\ Len(call.ret) = Cardinality(KeptPositions(call.arg))
        /\ \A i \in KeptPositions(call.arg) :
              call.ret[Cardinality({j \in KeptPositions(call.arg) : j <= i})]
                  = call.arg[i]

\* two forbidden characters around a kept one
C9_Witness ==
    /\ call.fn = "sanitize_input"
    /\ call.arg = <<";", "a", "$">>
    /\ call.ret = <<"a">>

\* the text a completed process leaves to show: its trimmed standard output,
\* else its trimmed standard error, else the placeholder
ShownText(run) ==
    IF Strip(run.stdout) # <<>> THEN Strip(run.stdout)
    ELSE IF Strip(run.stderr) # <<>> THEN Strip(run.stderr)
    ELSE NoOutput

\* C10: the output of a GitResult is never longer than max_output_length
\* plus the marker; a text longer than max_output_length is returned as its
\* first max_output_length characters and the marker, any other unchanged.
C10_OutputBounded ==
    call.fn = "execute_git_command" =>
        /\ Len(call.ret.output) <= config.max_output_length + Len(TruncMarker)
        /\ call.arg.kind = "exit" =>
              LET text == ShownText(call.arg)
                  n == config.max_output_length
                  out == call.ret.output
              IN  IF Len(text) > n
                  THEN /\ Len(out) = n + Len(TruncMarker)
                       /\ \A i \in 1..n : out[i] = text[i]
                       /\ \A i \in 1..Len(TruncMarker) : out[n + i] = TruncMarker[i]
                  ELSE out = text

\* with max_output_length = -1 a standard output of three characters comes
\* back as its first two and the marker: twelve characters against a bound
\* of nine
C10_Witness ==
    /\ call.fn = "execute_git_command"
    /\ call.arg.kind = "exit"
    /\ call.arg.stdout = <<"x", "x", "x">>
    /\ config.max_output_length = -1
    /\ call.ret.output = <<"x", "x">> \o TruncMarker
    /\ Len(call.ret.output) > config.max_output_length + Len(TruncMarker)

\* C11: a run that outlives the timeout gives success false, return code -1
\* and an error naming the timeout; a run that cannot be started gives
\* success false, return code -1 and an error; a run that exits gives
\* success exactly when the status is 0, that status as return code and no
\* error.  So an error comes only with success false and return code -1.
C11_ThreeOutcomes ==
    call.fn = "execute_git_command" =>
        LET run == call.arg
            r == call.ret
        IN  /\ run.kind = "timeout" =>
                  /\ r.success = FALSE /\ r.return_code = -1
                  /\ r.error.kind = "timeout"
                  /\ r.error.seconds = config.command_timeout
            /\ run.kind = "oserror" =>
                  /\ r.success = FALSE /\ r.return_code = -1
                  /\ r.error.kind = "exception"
            /\ run.kind = "exit" =>
                  /\ r.success = (run.returncode = 0)
                  /\ r.return_code = run.returncode
                  /\ r.error.kind = "none"
            /\ r.error.kind # "none" => (r.success = FALSE /\ r.return_code = -1)

\* a process that exits with status 1 and output: no success and no error
C11_Witness ==
    /\ call.fn = "execute_git_command"
    /\ call.arg.kind = "exit"
    /\ call.arg.returncode = 1
    /\ call.arg.stdout = <<"x">>
    /\ call.ret.success = FALSE
    /\ call.ret.return_code = 1
    /\ call.ret.error.kind = "none"

\* C12: the output of a run that exits is the trimmed standard output if
\* that is not empty, else the trimmed standard error if that is not empty,
\* else the placeholder, whole or cut before the marker; it is never empty.
C12_OutputSelection ==
    (call.fn = "execute_git_command" /\ call.arg.kind = "exit") =>
        LET text == ShownText(call.arg)
            out == call.ret.output
        IN  /\ out # <<>>
            /\ \/ out = text
               \/ \E k \in 0..Len(text) : out = SubSeq(text, 1, k) \o TruncMarker
            /\ Len(text) <= config.max_output_length => out = text

\* blank standard output and a standard error: the standard error is shown
C12_Witness ==
    /\ call.fn = "execute_git_command"
    /\ call.arg.kind = "exit"
    /\ call.arg.stdout = <<" ">>
    /\ call.arg.stderr = <<"e">>
    /\ call.ret.output = <<"e">>

\* C13: every call of execute_git_command returns a GitResult; a call whose
\* timeout ran out returns success false with the timeout as error, and no
\* call starts a process twice.
C13_EveryCallReturns ==
    /\ (exec.pc = "communicate") ~> (exec.pc = "returned")
    /\ [](exec.pc = "returned" => Len(result) = 1)
    /\ []((exec.pc = "returned" /\ exec.timedout) =>
             /\ result[1].success = FALSE
             /\ result[1].error.kind = "timeout"
             /\ result[1].error.seconds = config.command_timeout)
    /\ [](exec.spawns <= 1)

\* a call that timed out has returned the timeout result, its shell
\* started once and collected
C13_Witness ==
    /\ exec.pc = "returned"
    /\ exec.timedout
    /\ exec.shell = "reaped"
    /\ exec.spawns = 1
    /\ result[1].error.kind = "timeout"

\* the entries of a list of paths
Entries(list) == {list[i] : i \in 1..Len(list)}

\* the part of entry below base
BelowBase(base, entry) == SubSeq(entry, Len(base) + 1, Len(entry))

\* C14: on a directory, find_git_repos returns a list sorted by path,
\* without a repeated entry, of which every entry is base_path or lies at
\* most max_depth names below it and holds a .git directory; no entry lies
\* beneath another, and no name on the way from base_path to an entry
\* starts with a dot.
C14_ScanResult ==
    (call.fn = "find_git_repos" /\ Stat(call.arg.base) = "dir") =>
        LET base == call.arg.base
            list == call.ret.list
        IN  /\ ~call.ret.raised
            /\ \A i \in 1..Len(list) : \A j \in 1..Len(list) :
                  i < j => (list[i] # list[j] /\ PathLess(list[i], list[j]))
            /\ \A e \in Entries(list) :
                  /\ Within(base, e)
                  /\ Len(e) - Len(base) <= call.arg.max_depth
                  /\ Stat(Append(e, DotGit)) = "dir"
                  /\ \A k \in 1..(Len(e) - Len(base)) :
                        Head(BelowBase(base, e)[k]) # "."
                  /\ \A f \in Entries(list) : (f # e) => ~Within(f, e)

\* from /h/p two levels deep: the repository a and the repository c under
\* b, not the one nested in a, not the hidden one
C14_Witness ==
    /\ call.fn = "find_git_repos"
    /\ call.arg = Scan(<<H, P>>, 2)
    /\ <<H, P, A>> \in Entries(call.ret.list)
    /\ <<H, P, B, C>> \in Entries(call.ret.list)
    /\ <<H, P, A, N>> \notin Entries(call.ret.list)
    /\ <<H, P, X>> \notin Entries(call.ret.list)
    /\ call.ret.list[1] = <<H, P, A>>

\* the repository roots find_git_repos(base, max_depth) is to return: the
\* directories q at most max_depth below base that hold a .git directory,
\* with every directory from base to q readable, none of them above q
\* holding a .git directory, and no name below base starting with a dot
ExpectedRepos(base, max_depth) ==
    {q \in DOMAIN fs :
        /\ Within(base, q)
        /\ Len(q) - Len(base) <= max_depth
        /\ \A k \in Len(base)..Len(q) :
              LET d == SubSeq(q, 1, k)
              IN  /\ d \in DOMAIN fs /\ fs[d].kind = "dir" /\ fs[d].access
                  /\ k > Len(base) => Head(q[k]) # "."
                  /\ k < Len(q) => ~IsDirectory(Append(d, DotGit))
        /\ IsDirectory(Append(q, DotGit))}

\* C15: a directory that cannot be read takes only what lies beneath it out
\* of the result: the scan of a readable directory ends without an
\* exception and returns every repository root that can be reached from it
\* through readable directories.
C15_UnreadableCostsOwnSubtreeOnly ==
    (/\ call.fn = "find_git_repos"
     /\ IsDirectory(call.arg.base)
     /\ Reachable(call.arg.base)) =>
        /\ ~call.ret.raised
        /\ ExpectedRepos(call.arg.base, call.arg.max_depth)
              \subseteq Entries(call.ret.list)

\* /h/p/l leads into the directory of mode 000 and is listed after a and
\* before b: the scan of /h/p returns a and not c under b
C15_Witness ==
    /\ call.fn = "find_git_repos"
    /\ call.arg = Scan(<<H, P>>, 2)
    /\ fs[<<H, P, L>>].target = <<H, P, U, R>>
    /\ listing = {<<H, P, A>>}
    /\ call.ret.list = <<<<H, P, A>>>>
    /\ <<H, P, B, C>> \in ExpectedRepos(<<H, P>>, 2)

\* the states a /git request is to end in
ResultStates ==
    {"Unauthorized", "NotThisMachine", "Malformed", "InvalidCommandVerb",
     "InvalidPath", "PathNotFound", "NotADirectory", "PathNotConfined",
     "NotARepo", "Executed"}

\* C16: every /git request ends in one of the ten result states; no failure
\* leaves the handler as an exception.
C16_EveryRequestEndsInAResultState ==
    (Handling /\ update.command = "git") => outcome \in ResultStates

\* the path lies under the directory of mode 000: exists() raises, the
\* handler ends there, and the chat keeps the first message
C16_Witness ==
    /\ update.command = "git"
    /\ Len(update.args) = 3
    /\ update.args[2] = <<"~", "/", "p", "/", "u", "/", "r">>
    /\ outcome = "Fault"
    /\ checks[Len(checks)] = "exists"
    /\ replies = <<Processing>>

\* C17: once execute_git_command has returned, after a timeout as after a
\* normal end, the shell it started has been collected and no process
\* started for the request is still running.
C17_NothingLeftRunning ==
    (exec.pc = "returned" /\ exec.spawns > 0) =>
        /\ exec.shell = "reaped"
        /\ exec.below # "running"

\* the call has returned its timeout result, the shell is collected, and
\* the processes under the shell are still running
C17_Witness ==
    /\ exec.pc = "returned"
    /\ exec.timedout
    /\ result[1].error.kind = "timeout"
    /\ exec.shell = "reaped"
    /\ exec.below = "running"

\* C18: while a command is executing, an update that is waiting can be
\* handled.
C18_LoopStaysResponsive ==
    (Executing /\ loop.pending) => ENABLED ServeOther

\* an update waits while the shell of the call runs, and none has been
\* served since the call began
C18_Witness ==
    /\ exec.pc = "communicate"
    /\ exec.shell = "running"
    /\ loop.pending
    /\ loop.served = 0
    /\ ~ENABLED ServeOther

\* the paths a reply offers as repositories: the suggestions of the
\* not-found message and the entries of the /list message
OfferedBy(reply) ==
    IF reply.kind = "NotFound" THEN Entries(reply.suggestions)
    ELSE IF reply.kind = "RepoList" THEN Entries(reply.repos)
    ELSE {}

Offered == UNION {OfferedBy(replies[i]) : i \in 1..Len(replies)}

\* what the /git handler asks of a target: it resolves, not to the home
\* directory, to an allowed root or beneath one, and holds a .git directory
AcceptedAsTarget(e) ==
    LET r == ResolvePath(e)
    IN  /\ r.ok
        /\ r.path # HomeDir
        /\ UnderAllowedRoot(r.path)
        /\ Stat(Append(e, DotGit)) = "dir"

\* C19: every path offered as a repository, in the suggestions of a
\* not-found reply and in the reply of /list, is one the /git handler
\* accepts as a target; none is the home directory.
C19_OfferedPathsAreAccepted ==
    \A e \in Offered : AcceptedAsTarget(e)

\* the home directory is an allowed root and holds .git: /list offers it
C19_Witness ==
    /\ update.command = "list"
    /\ outcome = "Answered"
    /\ HomeDir \in Offered
    /\ ~is_path_allowed(HomeDir)
    /\ \E i \in 1..Len(config.allowed_paths) : config.allowed_paths[i] = HomeDir

\* the identity of the update is not authorized
Refused ==
    /\ Handling
    /\ config.allowed_user_ids # {}
    /\ update.user_id \notin config.allowed_user_ids

\* the replies to an identity that is not authorized, by command
RefusalOf(command, user_id) ==
    IF command = "start"
    THEN <<[op |-> "reply", kind |-> "NoPermissionStart", user_id |-> user_id]>>
    ELSE IF command = "status"
    THEN <<[op |-> "reply", kind |-> "NoPermissionStatus", user_id |-> user_id]>>
    ELSE IF command = "git"
    THEN <<[op |-> "reply", kind |-> "NoPermission", user_id |-> user_id]>>
    ELSE <<>>

\* C20: for an identity that is not authorized no handler scans the
\* filesystem or runs a command, and what it replies is given by the
\* command and the identity alone.
C20_NothingForTheUnauthorized ==
    Refused =>
        /\ scanned = <<>>
        /\ spawned = <<>>
        /\ result = <<>>
        /\ replies = RefusalOf(update.command, update.user_id)

\* /list from an identity that is not on the list, on a machine with
\* repositories under its allowed root: no scan and no reply
C20_Witness ==
    /\ Refused
    /\ update.command = "list"
    /\ outcome = "Unauthorized"
    /\ config.allowed_paths = <<<<H, P>>>>
    /\ scanned = <<>>
    /\ replies = <<>>

=============================================================================
